---- MODULE Spec2Model ----
(***************************************************************************)
(* A model of excel_reminder.py: the today-scoped loader                   *)
(* (ExcelReminderApp.load_today_data), its JSON day cache, its change      *)
(* detection (_print_new_records) and its background refresh thread        *)
(* (start_refreshing / _refresh_loop / stop_refreshing).                   *)
(*                                                                         *)
(* Python values are modelled as records of one shape                      *)
(*     [ty, d, t, s]                                                       *)
(* ty : the Python type ("None", "str", "int", "float", "date",            *)
(*      "datetime"; the one float is NaN, pandas' empty cell),             *)
(* d  : the calendar day of a date/datetime (or the value of an int),     *)
(* t  : the time of day of a datetime, in seconds after midnight,          *)
(* s  : the text of a str, a sequence of characters.                       *)
(* A character is a record [c, n]: the pieces of text the program can tell *)
(* apart ("2024-01-0n" written in ISO form, "01/0n/2024", "09:00:0n", a    *)
(* blank, a letter).                                                       *)
(*                                                                         *)
(* Nothing keeps one call of load_today_data apart from another call of    *)
(* it, or from what happens to the two files meanwhile: a call is taken    *)
(* one access at a time, a step for each read or write of the cache file,  *)
(* of the workbook and of self.today_data and self.previous_data.  A call  *)
(* reads and writes the cache file it opened, which need no longer be the  *)
(* file at the path.                                                       *)
(*                                                                         *)
(* The specifications share the state and the actions:                     *)
(*   Spec         the caller, the refresh threads and a small environment; *)
(*   SpecFair     Spec with every refresh thread scheduled fairly;         *)
(*   SpecLoad     the caller polling while the sheet grows, the day        *)
(*                changes and the cache file is damaged;                   *)
(*   SpecWrite    the caller polling while the cache file is removed,      *)
(*                replaced and written into;                               *)
(*   SpecExtract  the first poll of a new loader, over every small sheet;  *)
(*   SpecDiff     _print_new_records over every two small snapshots;       *)
(*   SpecRace     the caller's poll and a thread's poll overlapping.       *)
(***************************************************************************)
EXTENDS Integers, Sequences, FiniteSets, TLC

\* ------------------------------------------------------------------ bounds
MaxDay == 2         \* calendar days 1..MaxDay
MaxTod == 1         \* times of day 0..MaxTod (0 is midnight)
MaxRows == 2        \* data rows of a sheet
MaxThreads == 2     \* threads start_refreshing may create in one run
MaxTyped == 1       \* rows typed into the workbook while the program runs

Days == 1..MaxDay

\* ------------------------------------------------------------------ text
Ch(c, n) == [c |-> c, n |-> n]
IsoDay(d) == <<Ch("Y-M-D", d)>>            \* "%Y-%m-%d"
UsDay(d) == <<Ch("M/D/Y", d)>>             \* "%m/%d/%Y"
Hms(t) == <<Ch("H:M:S", t)>>               \* "%H:%M:%S"
Blank == <<Ch(" ", 0)>>
Letters(w) == <<Ch(w, 0)>>                 \* a word that is no date

\* ------------------------------------------------------------------ values
PyNone == [d |-> 0, t |-> 0, ty |-> "None", s |-> <<>>]
PyStr(s) == [d |-> 0, t |-> 0, ty |-> "str", s |-> s]
PyInt(n) == [d |-> n, t |-> 0, ty |-> "int", s |-> <<>>]
PyNaN == [d |-> 0, t |-> 0, ty |-> "float", s |-> <<>>]
PyDate(d) == [d |-> d, t |-> 0, ty |-> "date", s |-> <<>>]
PyDateTime(d, t) == [d |-> d, t |-> t, ty |-> "datetime", s |-> <<>>]

\* Python truthiness of a cell value (line 108, `if time_value:`).
Truthy(v) ==
    CASE v.ty = "None" -> FALSE
      [] v.ty = "str" -> v.s # <<>>
      [] v.ty = "int" -> v.d # 0
      [] OTHER -> TRUE

\* str(v): datetime.__str__ is "YYYY-MM-DD HH:MM:SS", date.__str__ is
\* "YYYY-MM-DD", str(None) is "None", str(nan) is "nan".
str(v) ==
    CASE v.ty = "None" -> Letters("None")
      [] v.ty = "float" -> Letters("nan")
      [] v.ty = "str" -> v.s
      [] v.ty = "int" -> <<Ch("digits", v.d)>>
      [] v.ty = "date" -> IsoDay(v.d)
      [] OTHER -> IsoDay(v.d) \o Blank \o Hms(v.t)

\* datetime.datetime.strptime(text, fmt): [ok, val]; ok = FALSE is ValueError.
NoParse == [ok |-> FALSE, val |-> PyNone]
Parsed(d, t) == [ok |-> TRUE, val |-> PyDateTime(d, t)]
\* The text is a day written in `form`, a run of blanks (one at least) and a
\* time of day: the blank of a format matches any run of white space.
DayBlanksTime(text, form) ==
    /\ Len(text) >= 3
    /\ text[1].c = form
    /\ \A i \in 2..(Len(text) - 1) : text[i] = Ch(" ", 0)
    /\ text[Len(text)].c = "H:M:S"
strptime(text, fmt) ==
    CASE fmt = "%Y-%m-%d %H:%M:%S" ->
            IF DayBlanksTime(text, "Y-M-D")
            THEN Parsed(text[1].n, text[Len(text)].n) ELSE NoParse
      [] fmt = "%Y-%m-%d" ->
            IF Len(text) = 1 /\ text[1].c = "Y-M-D"
            THEN Parsed(text[1].n, 0) ELSE NoParse
      [] fmt = "%m/%d/%Y %H:%M:%S" ->
            IF DayBlanksTime(text, "M/D/Y")
            THEN Parsed(text[1].n, text[Len(text)].n) ELSE NoParse
      [] OTHER ->
            IF Len(text) = 1 /\ text[1].c = "M/D/Y"
            THEN Parsed(text[1].n, 0) ELSE NoParse

\* _parse_time: the four formats in order for text, a datetime as it is, a date
\* at midnight, ValueError (ok = FALSE) for anything else.
_parse_time(time_value) ==
    CASE time_value.ty = "str" ->
            LET p1 == strptime(time_value.s, "%Y-%m-%d %H:%M:%S")
                p2 == strptime(time_value.s, "%Y-%m-%d")
                p3 == strptime(time_value.s, "%m/%d/%Y %H:%M:%S")
                p4 == strptime(time_value.s, "%m/%d/%Y")
            IN  IF p1.ok THEN p1 ELSE IF p2.ok THEN p2 ELSE IF p3.ok THEN p3 ELSE p4
      [] time_value.ty = "datetime" -> [ok |-> TRUE, val |-> time_value]
      [] time_value.ty = "date" -> Parsed(time_value.d, 0)
      [] OTHER -> NoParse

\* time_obj.date()
DateOf(time_obj) == time_obj.d

\* As IsToday, were line 110 missing: the rows of every day are kept.
IsToday_Always(time_obj, today) == TRUE

\* As IsToday, were the comparison of line 110 `>=`: later days are kept too.
IsToday_OrLater(time_obj, today) == DateOf(time_obj) >= today

\* Line 110, `time_obj.date() == today`.
IsToday(time_obj, today) == DateOf(time_obj) = today

\* ------------------------------------------------------------------ records
\* A record is the dict {'时间': time, column: value, ...}: its time and its
\* other keys (fields, a function from the column names present to values).
Rec(time, fields) == [time |-> time, fields |-> fields]

\* record.get(key, default)
Get(record, key, default) ==
    IF key \in DOMAIN record.fields THEN record.fields[key] ELSE default

\* ------------------------------------------------------------------ configuration
\* main() (lines 272-275): time_column = "复诊时间", content_columns =
\* ["姓名", "处置", "余留问题"].  The names are written in ASCII here:
\* "time_col" for the time column, "action" for "处置", "remaining" for
\* "余留问题", and "name" for "姓名", the key _print_new_records reads.
time_column == "time_col"
content_columns == <<"name", "action", "remaining">>
NameKey == "name"

\* ------------------------------------------------------------------ extraction
Range(f) == {f[i] : i \in DOMAIN f}
Max(S) == CHOOSE x \in S : \A y \in S : y <= x
Min(S) == CHOOSE x \in S : \A y \in S : x <= y

\* _get_columns: the header row is scanned left to right, a later match
\* overwrites an earlier one; ok = FALSE is ValueError("未找到时间列").
_get_columns(header, tcol, ccols) ==
    LET tmatches == {i \in DOMAIN header : header[i] = tcol}
        found == {c \in Range(ccols) : \E i \in DOMAIN header : header[i] = c}
    IN  [ok |-> tmatches # {},
         time_col_idx |-> IF tmatches = {} THEN 0 ELSE Max(tmatches),
         content_col_indices |->
            [c \in found |-> Max({i \in DOMAIN header : header[i] = c})]]

\* The record _parse_xlsx_rows builds of one row (lines 111-113).
RowRecord(row, time_obj, content_col_indices) ==
    Rec(time_obj,
        [c \in DOMAIN content_col_indices |->
            IF content_col_indices[c] - 1 < Len(row)
            THEN row[content_col_indices[c]] ELSE PyNone])

\* _parse_xlsx_rows: the rows in order; an empty time cell is passed over, a
\* time dated another day is left out, a time _parse_time refuses raises out
\* of the loop (ok = FALSE, ValueError).
RECURSIVE ParseRowsFrom(_, _, _, _, _, _)
ParseRowsFrom(rows, i, time_col_idx, content_col_indices, today, data) ==
    IF i > Len(rows) THEN [ok |-> TRUE, data |-> data]
    ELSE LET row == rows[i]
             time_value == row[time_col_idx]
         IN  IF ~Truthy(time_value)
             THEN ParseRowsFrom(rows, i + 1, time_col_idx, content_col_indices, today, data)
             ELSE LET p == _parse_time(time_value)
                  IN  IF ~p.ok THEN [ok |-> FALSE, data |-> data]
                      ELSE IF IsToday(p.val, today)
                      THEN ParseRowsFrom(rows, i + 1, time_col_idx, content_col_indices, today,
                                         Append(data, RowRecord(row, p.val, content_col_indices)))
                      ELSE ParseRowsFrom(rows, i + 1, time_col_idx, content_col_indices, today, data)

_parse_xlsx_rows(rows, time_col_idx, content_col_indices, today) ==
    ParseRowsFrom(rows, 1, time_col_idx, content_col_indices, today, <<>>)

\* ------------------------------------------------------------------ extraction, .xls
\* pd.read_excel (line 53): the DataFrame of the sheet.  Its columns are named
\* by the header row (df.header), an empty cell is NaN.
read_excel(xl) ==
    [xl EXCEPT !.rows = [i \in 1..Len(xl.rows) |->
                            [j \in 1..Len(xl.rows[i]) |->
                                IF xl.rows[i][j].ty = "None" THEN PyNaN ELSE xl.rows[i][j]]]]

\* df[col]: of columns of one name pandas keeps the first under that name.
ColumnOf(df, col) == Min({i \in DOMAIN df.header : df.header[i] = col})

\* pd.to_datetime of one cell (line 120): val = PyNaN is NaT, ok = FALSE is
\* the ValueError of a text that is no time.  NaN and "" give NaT; an int is
\* a number of nanoseconds after 1970-01-01, which is day 0 here; the texts
\* read as a time are those _parse_time reads (a day in either form, alone or
\* followed by blanks and a time of day).
to_datetime(v) ==
    CASE v.ty \in {"None", "float"} -> [ok |-> TRUE, val |-> PyNaN]
      [] v.ty = "int" -> Parsed(0, 0)
      [] v.ty = "str" /\ v.s = <<>> -> [ok |-> TRUE, val |-> PyNaN]
      [] OTHER -> _parse_time(v)

\* Lines 121-123: today_start <= datetime <= today_end; NaT is in no day.
WithinToday(time_obj, today) == time_obj.ty = "datetime" /\ DateOf(time_obj) = today

\* _parse_xls_data: ok = FALSE is ValueError, of line 119 (line = "columns") or
\* of pd.to_datetime (line = "rows"); every configured content column is a key
\* of a record, None where the sheet has no such column.
_parse_xls_data(df, tcol, ccols, today) ==
    IF tcol \notin Range(df.header) THEN [ok |-> FALSE, data |-> <<>>, line |-> "columns"]
    ELSE LET times == [i \in 1..Len(df.rows) |-> to_datetime(df.rows[i][ColumnOf(df, tcol)])]
             idx == SelectSeq([i \in 1..Len(df.rows) |-> i],
                              LAMBDA i : WithinToday(times[i].val, today))
         IN  IF \E i \in DOMAIN times : ~times[i].ok
             THEN [ok |-> FALSE, data |-> <<>>, line |-> "rows"]
             ELSE [ok |-> TRUE,
                   data |-> [k \in 1..Len(idx) |->
                               Rec(times[idx[k]].val,
                                   [c \in Range(ccols) |->
                                       IF c \in Range(df.header)
                                       THEN df.rows[idx[k]][ColumnOf(df, c)] ELSE PyNone])],
                   line |-> "rows"]

\* ------------------------------------------------------------------ cache file
\* The length of the text json.dump writes of a value: a str in quotes, null,
\* NaN, a number of one digit; a date or datetime as the str of it
\* (default=str).
CharLen(ch) ==
    CASE ch.c \in {"Y-M-D", "M/D/Y"} -> 10
      [] ch.c = "H:M:S" -> 8
      [] ch.c = "None" -> 4
      [] ch.c \in {"abc", "nan"} -> 3
      [] OTHER -> 1
RECURSIVE TextLen(_)
TextLen(text) == IF text = <<>> THEN 0 ELSE CharLen(Head(text)) + TextLen(Tail(text))
JsonLen(v) ==
    CASE v.ty = "None" -> 4
      [] v.ty = "float" -> 3
      [] v.ty = "int" -> 1
      [] OTHER -> TextLen(str(v)) + 2
\* A key in quotes: json.dump writes a character of "时间", "姓名", "处置",
\* "余留问题" as \uXXXX.
KeyLen(key) == IF key = "remaining" THEN 26 ELSE 14
RECURSIVE FieldsLen(_, _)
FieldsLen(fields, keys) ==
    IF keys = {} THEN 0
    ELSE LET key == CHOOSE k \in keys : TRUE
         IN  2 + KeyLen(key) + 2 + JsonLen(fields[key]) + FieldsLen(fields, keys \ {key})
RecordLen(r) == 1 + KeyLen("time") + 2 + JsonLen(r.time) + FieldsLen(r.fields, DOMAIN r.fields) + 1
RECURSIVE RecordsLen(_)
RecordsLen(data) ==
    IF data = <<>> THEN 0
    ELSE RecordLen(Head(data)) + (IF Len(data) > 1 THEN 2 ELSE 0) + RecordsLen(Tail(data))
\* {"date": "...", "data": [...]}
EntryLen(date, data) == 1 + 6 + 2 + (TextLen(date) + 2) + 2 + 6 + 2 + (2 + RecordsLen(data)) + 1

\* A file as what open() and json.load make of it:
\*   "missing"        no file                       FileNotFoundError
\*   "no_permission"  not readable, not writable    PermissionError
\*   "undecodable"    bytes that are no text        UnicodeDecodeError
\*   "invalid_json"   text that is no JSON (empty, cut short, an entry with the
\*                    tail of a longer text after it)  JSONDecodeError
\*   "json_other"     JSON that is no object (a list, a number)
\*   "json_dict"      the object {'date': date, 'data': data}
\* and its length in bytes (size).
Text(st, size) == [data |-> <<>>, date |-> <<>>, st |-> st, size |-> size]
\* The file json.dump makes of {'date': date, 'data': data}.
Entry(date, data) ==
    [data |-> data, date |-> date, st |-> "json_dict", size |-> EntryLen(date, data)]
NoCacheFile == Text("missing", 0)
EmptyFile == Text("invalid_json", 0)
BrokenCacheStates == {"missing", "no_permission", "undecodable", "invalid_json", "json_other"}

\* json.dump(..., default=str) followed by json.load: a date or datetime comes
\* back as the str of it, None, str and int come back as they were.
JsonValue(v) == IF v.ty \in {"date", "datetime"} THEN PyStr(str(v)) ELSE v
JsonRecord(r) == Rec(JsonValue(r.time), [c \in DOMAIN r.fields |-> JsonValue(r.fields[c])])
JsonList(data) == [i \in 1..Len(data) |-> JsonRecord(data[i])]

\* As open_w, were the file opened 'r+'-like: what it holds is kept.
open_w_Keeps(cf) ==
    IF cf.st = "no_permission" THEN [ok |-> FALSE, exc |-> "PermissionError", file |-> cf]
    ELSE [ok |-> TRUE, exc |-> "",
          file |-> IF cf.st = "missing" THEN EmptyFile ELSE cf]

\* open(self.cache_file, 'w') (line 154): the file is created, or emptied.
\* ok = FALSE is the PermissionError of open().
open_w(cf) ==
    IF cf.st = "no_permission" THEN [ok |-> FALSE, exc |-> "PermissionError", file |-> cf]
    ELSE [ok |-> TRUE, exc |-> "", file |-> EmptyFile]

\* The entry with blanks after its text, up to `size`: json.load reads the
\* entry in it.
Padded(entry, size) == [entry EXCEPT !.size = size]

\* json.dump and the close of the file (line 155): the text of `entry` is
\* written from the start of the file that was opened, cf, over what that
\* file holds by now, and the files it can leave.  Over a longer text,
\* written into the file since it was opened, the tail of that text is left
\* after the entry.  Of an entry (with the blanks after it, if any) the tail
\* is blanks when the text of the old entry is all written over, and else
\* the end of the old entry, which is no JSON after the new one.  Of any other
\* text the tail is not known from its kind and length: it may be blanks
\* (json.load reads the entry), other text (no JSON) or bytes that are no
\* text.
WrittenOver(cf, entry) ==
    IF cf.size <= entry.size THEN {entry}
    ELSE IF cf.st = "json_dict"
    THEN {IF EntryLen(cf.date, cf.data) <= entry.size THEN Padded(entry, cf.size)
          ELSE Text("invalid_json", cf.size)}
    ELSE {Padded(entry, cf.size), Text("invalid_json", cf.size),
          Text("undecodable", cf.size)}

\* As CacheReadRaises, were json.JSONDecodeError not caught at line 37.
CacheReadRaises_JsonToo(cf) ==
    CASE cf.st = "no_permission" -> "PermissionError"
      [] cf.st = "undecodable" -> "UnicodeDecodeError"
      [] cf.st = "json_other" -> "AttributeError"
      [] cf.st = "invalid_json" -> "JSONDecodeError"
      [] OTHER -> ""

\* Lines 29-31 and 37-38: what opening and parsing the cache file comes to.
\* "hit": an object whose date is str(today); "miss": FileNotFoundError and
\* JSONDecodeError (caught at line 37) and an object of another date; any other
\* exception leaves the inner try.
CacheReadRaises(cf) ==
    CASE cf.st = "no_permission" -> "PermissionError"
      [] cf.st = "undecodable" -> "UnicodeDecodeError"
      [] cf.st = "json_other" -> "AttributeError"
      [] OTHER -> ""
\* As CacheRead, were lines 31-36 missing: no entry is used.
CacheRead_NeverHit(cf, today) ==
    IF CacheReadRaises(cf) # "" THEN "raise" ELSE "miss"

\* As CacheRead, were the date of the entry not compared (line 31).
CacheRead_AnyDay(cf, today) ==
    IF CacheReadRaises(cf) # "" THEN "raise"
    ELSE IF cf.st = "json_dict" THEN "hit"
    ELSE "miss"

CacheRead(cf, today) ==
    IF CacheReadRaises(cf) # "" THEN "raise"
    ELSE IF cf.st = "json_dict" /\ cf.date = str(PyDate(today)) THEN "hit"
    ELSE "miss"

\* ------------------------------------------------------------------ change detection
\* Line 76-77: the key of a record, str(time) + str(name or "").
IdentityKey(r) == str(r.time) \o str(Get(r, NameKey, PyStr(<<>>)))

\* _print_record raises AttributeError unless record["时间"] has strftime.
Printable(r) == r.time.ty \in {"date", "datetime"}

\* Lines 71-77: the records to print.  first_load is what line 71 made of
\* self.previous_data (it was empty), previous is self.previous_data as line
\* 76 read it, current is self.today_data as line 73 or line 77 read it.
new_records_of(first_load, previous, current) ==
    IF first_load THEN current
    ELSE LET old_ids == {IdentityKey(previous[i]) : i \in DOMAIN previous}
         IN  SelectSeq(current, LAMBDA r : IdentityKey(r) \notin old_ids)

\* Lines 73-74, 81-82: the records are printed; ok = FALSE is the
\* AttributeError of _print_record.
Printed(new_records) ==
    [ok |-> \A i \in DOMAIN new_records : Printable(new_records[i]),
     new_records |-> new_records]

\* As _print_new_records, were the records compared whole and not by their
\* keys.
_print_new_records_ByValue(previous_data, today_data) ==
    Printed(IF previous_data = <<>> THEN today_data
            ELSE SelectSeq(today_data,
                           LAMBDA r : \A i \in DOMAIN previous_data : previous_data[i] # r))

\* _print_new_records with nothing else running: new_records is what is
\* printed as new (every record on a first load).
_print_new_records(previous_data, today_data) ==
    Printed(new_records_of(previous_data = <<>>, previous_data, today_data))

\* ------------------------------------------------------------------ the poll
\* What one call of load_today_data comes to: the returned (success,
\* message), the records _print_new_records found new (newly), the place the
\* call ended at (at) and whether an exception left the call (raised).  A
\* message is its wording (kind), the number in it (n) and, for
\* "加载失败: ...", the exception (exc):
\*   "cache_loaded" 从缓存加载 n 条记录      "not_exist"   文件不存在
\*   "loaded"       成功加载 n 条今日记录    "unsupported" 不支持的文件类型
\*   "failed"       加载失败: exc
\* The places: "read" (lines 29-31, before the date matched), "hit" (32-36),
\* "open" (41-57, the file and its type), "columns" (48), "rows" (50),
\* "write" (59), "end" (62-65).
Outcome(success, kind, n, exc, newly, at, raised) ==
    [n |-> n, exc |-> exc, success |-> success, kind |-> kind, newly |-> newly,
     at |-> at, raised |-> raised]

\* As Caught, were line 66 missing: the exception leaves load_today_data.
Caught_Propagates(exc, newly, at) == Outcome(FALSE, "failed", 0, exc, newly, at, TRUE)

\* Lines 66-67, `except Exception as e: return False, f"加载失败: {str(e)}"`.
Caught(exc, newly, at) == Outcome(FALSE, "failed", 0, exc, newly, at, FALSE)

\* What lines 50 and 55 make of the workbook read: [ok, data, line].
ParsedRows(xl, today, ccols) ==
    IF xl.ext = ".xls" THEN _parse_xls_data(read_excel(xl), time_column, ccols, today)
    ELSE LET cols == _get_columns(xl.header, time_column, ccols)
             parsed == _parse_xlsx_rows(xl.rows, cols.time_col_idx,
                                        cols.content_col_indices, today)
         IN  [ok |-> parsed.ok, data |-> parsed.data, line |-> "rows"]

\* ------------------------------------------------------------------ state
VARIABLES
    today,          \* datetime.date.today(), the calendar's day
    excel,          \* the workbook at excel_path: [exists, ext, header, rows]
    cache_file,     \* the file at the path data_cache.json
    unlinked,       \* the files no longer at the path that a call still holds open
    today_data,     \* self.today_data
    previous_data,  \* self.previous_data
    stop_event,     \* self.stop_event.is_set()
    check_thread,   \* self.check_thread: 0 is None, else the thread's number
    thread,         \* where each thread of _refresh_loop is
    caller,         \* the foreground caller: "idle", "load" inside load_today_data,
                    \* "stop" inside stop_refreshing before line 171, "join" inside join
    last,           \* the latest poll: who ran it, on what, what it returned and printed
    written,        \* the snapshot the latest _cache_data wrote, and its day
    self_content_columns,   \* self.content_columns
    pc,             \* the place in load_today_data each caller of it is at
    frame           \* the locals of load_today_data of each caller of it

vars == <<today, excel, cache_file, unlinked, today_data, previous_data,
          stop_event, check_thread, thread, caller, last, written,
          self_content_columns, pc, frame>>

Threads == 1..MaxThreads
Alive == {"test", "load", "sleep"}      \* Thread.is_alive()
is_alive(t) == thread[t] \in Alive

\* ------------------------------------------------------------------ the environment's values
\* The file at excel_path: whether it exists, its extension, and the sheet
\* the reader of its type makes of it, if it can read the file.
Workbook(exists, ext, header, rows) ==
    [header |-> header, rows |-> rows, ext |-> ext, exists |-> exists, readable |-> TRUE]
Unreadable(w) == [w EXCEPT !.readable = FALSE]
TimedHeader == <<time_column, "name">>
UntimedHeader == <<"date", "name">>
Unparseable == PyStr(Letters("abc"))
NameA == PyStr(Letters("A"))
MissingWorkbook == Workbook(FALSE, ".xlsx", <<>>, <<>>)
CsvWorkbook == Workbook(TRUE, ".csv", TimedHeader, <<>>)
UntimedWorkbook == Workbook(TRUE, ".xlsx", UntimedHeader, <<>>)
EmptyWorkbook == Workbook(TRUE, ".xlsx", TimedHeader, <<>>)
UnparseableWorkbook == Workbook(TRUE, ".xlsx", TimedHeader, <<<<Unparseable, NameA>>>>)
DayWorkbook(d) == Workbook(TRUE, ".xlsx", TimedHeader, <<<<PyDateTime(d, 0), NameA>>>>)
XlsWorkbook(d) == Workbook(TRUE, ".xls", TimedHeader, <<<<PyDateTime(d, 0), NameA>>>>)

\* The cache file the program may find when it starts: none, or the entry an
\* earlier run left, of day 1 or of the last day.
LeftoverCaches ==
    {NoCacheFile} \cup
    {Entry(str(PyDate(d)),
           JsonList(<<Rec(PyDateTime(d, 0), [c \in {NameKey} |-> NameA])>>)) : d \in {1, MaxDay}}

\* The files put at the path, or written into the file there, from outside the
\* program: bytes that are no text, an empty file (EmptyFile), the text `[]`,
\* a file the program may neither read nor write, and a long text that is no
\* JSON (longer than an entry of the sheets here).  The file that may not be
\* opened is put at the path as another file: a call that holds the file
\* open goes on using that, as it does when the permissions are taken away.
Undecodable == Text("undecodable", 1)
JsonOther == Text("json_other", 2)
NoPermission == Text("no_permission", 0)
LongText == Text("invalid_json", 1000)

\* The name typed into row i.
RowName(i) == PyStr(Letters(IF i % 2 = 1 THEN "A" ELSE "B"))

NoPoll ==
    [n |-> 0, today |-> 0, exc |-> "", success |-> FALSE, kind |-> "none",
     newly |-> <<>>, at |-> "", raised |-> FALSE, excel |-> MissingWorkbook,
     by |-> -1, print |-> FALSE, cst |-> "missing", cdate |-> <<>>]
NothingWritten == [data |-> <<>>, day |-> 0]

\* The callers of load_today_data: 0 is the foreground caller, t is thread t.
\* The locals of a call: today (line 25), hit (the date of the cache entry
\* matched, line 31), data (cache.get('data') of line 33, or the list parsed,
\* line 50 or 55), xl (the workbook read at line 46 or 53), copied (the list
\* self.today_data.copy() made, before it is stored), wdata (the list
\* _cache_data put into `cache`, line 153), first_load (what line 71 made of
\* self.previous_data), previous (self.previous_data as line 76 read it),
\* newly (the records printed).  With them are kept what the call found when
\* it began: self.today_data (held), the workbook (xl, until one is read),
\* the kind and date of the cache file it read (cst, cdate) and whether
\* another call had that file open for writing (torn); and whether the call
\* has opened the cache file for writing (wrote), and the file as that left
\* it (opened).  fd is the file the call holds open (line 29, line 154),
\* named by where it is now: 0 when the call holds none, AtPath the file at
\* the path, another number a file that is no longer at the path.
Callers == 0..MaxThreads
NoFrame ==
    [today |-> 0, data |-> <<>>, xl |-> MissingWorkbook, first_load |-> FALSE,
     previous |-> <<>>, newly |-> <<>>, cst |-> "missing", cdate |-> <<>>,
     hit |-> FALSE, wdata |-> <<>>, held |-> <<>>, torn |-> FALSE, copied |-> <<>>,
     wrote |-> FALSE, opened |-> NoCacheFile, fd |-> 0]

\* The files a call may hold open: the file at the path, and the files no
\* longer there (one for each caller at most).
AtPath == 1
Gone == 2..(MaxThreads + 2)
NoneUnlinked == [i \in Gone |-> NoCacheFile]

\* ------------------------------------------------------------------ initial state
\* __init__ (lines 13-21): a new loader.
NewLoader ==
    /\ today_data = <<>>
    /\ previous_data = <<>>
    /\ stop_event = FALSE
    /\ check_thread = 0
    /\ thread = [t \in Threads |-> "unborn"]
    /\ caller = "idle"
    /\ last = NoPoll
    /\ written = NothingWritten
    /\ self_content_columns = content_columns
    /\ pc = [p \in Callers |-> "idle"]
    /\ frame = [p \in Callers |-> NoFrame]
    /\ unlinked = NoneUnlinked

\* ------------------------------------------------------------------ the files
\* The file a call holds open as h: the file at the path, or one that is no
\* longer there.
FileOf(h) == IF h = AtPath THEN cache_file ELSE unlinked[h]

\* The file at the path is removed, or another is put in its place: the
\* calls that hold it open keep it as it is, under a number no call uses.
Slot == Min({i \in Gone : \A q \in Callers : frame[q].fd # i})
Unlinked ==
    IF \E q \in Callers : frame[q].fd = AtPath
    THEN [unlinked EXCEPT ![Slot] = cache_file]
    ELSE unlinked
Moved ==
    [q \in Callers |->
       IF frame[q].fd = AtPath THEN [frame[q] EXCEPT !.fd = Slot] ELSE frame[q]]

\* The files `files` no longer at the path, once the call of p has closed the
\* file h: a file no call holds open any more is gone.
Closed(p, h, files) ==
    IF h \in {0, AtPath} \/ \E q \in Callers : q # p /\ frame[q].fd = h THEN files
    ELSE [files EXCEPT ![h] = NoCacheFile]

\* ------------------------------------------------------------------ load_today_data
\* load_today_data, one access at a time.  pc[p] is where the call of p will
\* go on:
\*   "idle"   no call, then line 25       "data"   line 33 / 50 / 55
\*   "cache"  line 29 / 37-38             "build"  line 153
\*   "load"   lines 30-31 / 37-38         "open"   line 154
\*   "exists" lines 41-44 / 52 / 56-57    "dump"   line 155
\*   "book"   lines 46-48 / 53            "test"   line 71
\*   "copy"   line 32 / 49 / 54, the      "ids"    line 76
\*            copy of self.today_data     "new"    lines 72-74 / 77-84
\*   "prev"   the same line, the store    "ret"    line 36 / line 65
\*            to self.previous_data
\* Every call in the program is made with print_new_records=True (lines 165,
\* 191, 229, 281).

\* The call of p goes on at `line`, with the locals f.
GoesOn(p, f, line) ==
    /\ pc' = [pc EXCEPT ![p] = line]
    /\ frame' = [frame EXCEPT ![p] = f]
    /\ caller' = IF p = 0 THEN "load" ELSE caller
    /\ UNCHANGED <<thread, last>>

\* The call of p, with the locals f, ends with the outcome r: it returns
\* (success, message), and the thread goes on to print the message and to
\* sleep (lines 166-167); an exception leaving the call ends the thread.
Returns(p, f, r) ==
    /\ pc' = [pc EXCEPT ![p] = "idle"]
    /\ frame' = [frame EXCEPT ![p] = NoFrame]
    /\ caller' = IF p = 0 THEN "idle" ELSE caller
    /\ thread' = IF p = 0 THEN thread
                 ELSE [thread EXCEPT ![p] = IF r.raised THEN "ended" ELSE "sleep"]
    /\ last' = [n |-> r.n, today |-> f.today, exc |-> r.exc, success |-> r.success,
                kind |-> r.kind, newly |-> r.newly, at |-> r.at, raised |-> r.raised,
                excel |-> f.xl, by |-> p, print |-> TRUE,
                cst |-> f.cst, cdate |-> f.cdate]

\* An exception raised at the place `at` in the call of p (lines 66-67).
Raises(p, f, exc, newly, at) == Returns(p, f, Caught(exc, newly, at))

\* A return of (False, message) (line 42, line 57).
Refuses(p, f, kind) == Returns(p, f, Outcome(FALSE, kind, 0, "", <<>>, "open", FALSE))

\* The call is made, and line 25: today = datetime.date.today().
poll_today(p) ==
    /\ pc[p] = "idle"
    /\ IF p = 0 THEN caller = "idle" ELSE thread[p] = "load"
    /\ GoesOn(p, [NoFrame EXCEPT !.today = today, !.held = today_data, !.xl = excel],
              "cache")
    /\ UNCHANGED <<today, excel, cache_file, unlinked, today_data, previous_data,
                   stop_event, check_thread, written, self_content_columns>>

\* Line 29, open(self.cache_file, 'r'): the file at the path is opened.  No
\* file there is the FileNotFoundError of line 37, and the call goes on at
\* line 41; a file that may not be read is the PermissionError of open().
poll_cache(p) ==
    /\ pc[p] = "cache"
    /\ IF cache_file.st = "missing"
       THEN GoesOn(p, [frame[p] EXCEPT !.cst = "missing"], "exists")
       ELSE IF cache_file.st = "no_permission"
       THEN Raises(p, [frame[p] EXCEPT !.cst = "no_permission"],
                   CacheReadRaises(cache_file), <<>>, "read")
       ELSE GoesOn(p, [frame[p] EXCEPT !.fd = AtPath], "load")
    /\ UNCHANGED <<today, excel, cache_file, unlinked, today_data, previous_data,
                   stop_event, check_thread, written, self_content_columns>>

\* Lines 30-31 and 37-38: json.load of the file that was opened, and the date
\* of the entry compared.  Nothing is read of the file after that.
poll_read(p) ==
    /\ pc[p] = "load"
    /\ LET cf == FileOf(frame[p].fd)
           rd == CacheRead(cf, frame[p].today)
           f == [frame[p] EXCEPT !.cst = cf.st, !.cdate = cf.date, !.fd = 0,
                                 !.torn = \E q \in Callers :
                                             /\ q # p /\ pc[q] = "dump"
                                             /\ frame[q].fd = frame[p].fd]
       IN  IF rd = "raise" THEN Raises(p, f, CacheReadRaises(cf), <<>>, "read")
           ELSE IF rd = "hit"
           THEN GoesOn(p, [f EXCEPT !.hit = TRUE, !.data = cf.data], "copy")
           ELSE GoesOn(p, f, "exists")
    /\ unlinked' = Closed(p, frame[p].fd, unlinked)
    /\ UNCHANGED <<today, excel, cache_file, today_data, previous_data, stop_event,
                   check_thread, written, self_content_columns>>

\* Lines 41-44, 52, 56-57: os.path.exists, and the extension of the path.
poll_exists(p) ==
    /\ pc[p] = "exists"
    /\ LET f == [frame[p] EXCEPT !.xl = excel]
       IN  IF ~excel.exists THEN Refuses(p, f, "not_exist")
           ELSE IF excel.ext \notin {".xlsx", ".xls"} THEN Refuses(p, f, "unsupported")
           ELSE GoesOn(p, f, "book")
    /\ UNCHANGED <<today, excel, cache_file, unlinked, today_data, previous_data,
                   stop_event, check_thread, written, self_content_columns>>

\* Lines 46-48, line 53: the workbook is read by the reader of its type
\* (load_workbook, pd.read_excel) and, of an .xlsx, its columns found.  A
\* file removed since line 41 raises FileNotFoundError, a file the reader
\* cannot read raises there too ("ReaderError").
poll_book(p) ==
    /\ pc[p] = "book"
    /\ LET f == [frame[p] EXCEPT !.xl = excel]
       IN  IF ~excel.exists THEN Raises(p, f, "FileNotFoundError", <<>>, "open")
           ELSE IF ~excel.readable THEN Raises(p, f, "ReaderError", <<>>, "open")
           ELSE IF /\ excel.ext = ".xlsx"
                   /\ ~_get_columns(excel.header, time_column, self_content_columns).ok
           THEN Raises(p, f, "ValueError", <<>>, "columns")
           ELSE GoesOn(p, f, "copy")
    /\ UNCHANGED <<today, excel, cache_file, unlinked, today_data, previous_data,
                   stop_event, check_thread, written, self_content_columns>>

\* Line 32, line 49, line 54, `self.today_data.copy()`: the list is read and
\* copied.
poll_copy(p) ==
    /\ pc[p] = "copy"
    /\ GoesOn(p, [frame[p] EXCEPT !.copied = today_data], "prev")
    /\ UNCHANGED <<today, excel, cache_file, unlinked, today_data, previous_data,
                   stop_event, check_thread, written, self_content_columns>>

\* The same line, `self.previous_data = `: the copy is stored.
poll_prev(p) ==
    /\ pc[p] = "prev"
    /\ previous_data' = frame[p].copied
    /\ GoesOn(p, frame[p], "data")
    /\ UNCHANGED <<today, excel, cache_file, unlinked, today_data, stop_event, check_thread,
                   written, self_content_columns>>

\* Line 33: self.today_data = cache.get('data', []); line 50, line 55:
\* self.today_data = the records parsed, or the ValueError of parsing.
poll_data(p) ==
    /\ pc[p] = "data"
    /\ \E parsed \in {IF frame[p].hit THEN [ok |-> TRUE, data |-> frame[p].data, line |-> ""]
                       ELSE ParsedRows(frame[p].xl, frame[p].today, self_content_columns)} :
          IF ~parsed.ok
          THEN /\ UNCHANGED today_data
               /\ Raises(p, frame[p], "ValueError", <<>>, parsed.line)
          ELSE /\ today_data' = parsed.data
               /\ GoesOn(p, [frame[p] EXCEPT !.data = parsed.data],
                         IF frame[p].hit THEN "test" ELSE "build")
    /\ UNCHANGED <<today, excel, cache_file, unlinked, previous_data, stop_event, check_thread,
                   written, self_content_columns>>

\* _cache_data, line 153: cache = {'date': str(today), 'data': self.today_data}.
poll_build(p) ==
    /\ pc[p] = "build"
    /\ GoesOn(p, [frame[p] EXCEPT !.wdata = today_data], "open")
    /\ UNCHANGED <<today, excel, cache_file, unlinked, today_data, previous_data,
                   stop_event, check_thread, written, self_content_columns>>

\* _cache_data, line 154: open(self.cache_file, 'w').  The file at the path
\* is emptied, or a new file made there, and the call holds it open.
poll_open(p) ==
    /\ pc[p] = "open"
    /\ \E opened \in {open_w(cache_file)} :
          IF ~opened.ok
          THEN /\ Raises(p, frame[p], opened.exc, <<>>, "write")
               /\ UNCHANGED cache_file
          ELSE /\ cache_file' = opened.file
               /\ GoesOn(p, [frame[p] EXCEPT !.wrote = TRUE, !.opened = opened.file,
                                             !.fd = AtPath], "dump")
    /\ UNCHANGED <<today, excel, unlinked, today_data, previous_data, stop_event,
                   check_thread, written, self_content_columns>>

\* _cache_data, line 155: json.dump into the file that was opened, and the
\* file is closed.
poll_dump(p) ==
    /\ pc[p] = "dump"
    /\ \E entry \in {Entry(str(PyDate(frame[p].today)), JsonList(frame[p].wdata))} :
          \E file \in WrittenOver(FileOf(frame[p].fd), entry) :
             IF frame[p].fd = AtPath
             THEN /\ cache_file' = file
                  /\ unlinked' = unlinked
                  /\ written' = IF file.st = "json_dict"
                                THEN [data |-> frame[p].wdata, day |-> frame[p].today]
                                ELSE written
             ELSE /\ cache_file' = cache_file
                  /\ unlinked' = Closed(p, frame[p].fd,
                                        [unlinked EXCEPT ![frame[p].fd] = file])
                  /\ written' = written
    /\ GoesOn(p, [frame[p] EXCEPT !.fd = 0], "test")
    /\ UNCHANGED <<today, excel, today_data, previous_data, stop_event,
                   check_thread, self_content_columns>>

\* _print_new_records, line 71: `if not self.previous_data`.
poll_test(p) ==
    /\ pc[p] = "test"
    /\ GoesOn(p, [frame[p] EXCEPT !.first_load = (previous_data = <<>>)],
              IF previous_data = <<>> THEN "new" ELSE "ids")
    /\ UNCHANGED <<today, excel, cache_file, unlinked, today_data, previous_data,
                   stop_event, check_thread, written, self_content_columns>>

\* _print_new_records, line 76: old_ids, of self.previous_data.
poll_ids(p) ==
    /\ pc[p] = "ids"
    /\ GoesOn(p, [frame[p] EXCEPT !.previous = previous_data], "new")
    /\ UNCHANGED <<today, excel, cache_file, unlinked, today_data, previous_data,
                   stop_event, check_thread, written, self_content_columns>>

\* _print_new_records, lines 72-74 and lines 77-84: the records to print, of
\* self.today_data, and their printing; the AttributeError of _print_record
\* is caught at line 66.
poll_new(p) ==
    /\ pc[p] = "new"
    /\ \E pr \in {Printed(new_records_of(frame[p].first_load, frame[p].previous,
                                         today_data))} :
          IF ~pr.ok
          THEN Raises(p, frame[p], "AttributeError", pr.new_records,
                      IF frame[p].hit THEN "hit" ELSE "end")
          ELSE GoesOn(p, [frame[p] EXCEPT !.newly = pr.new_records], "ret")
    /\ UNCHANGED <<today, excel, cache_file, unlinked, today_data, previous_data,
                   stop_event, check_thread, written, self_content_columns>>

\* Line 36, line 65: the return, with len(self.today_data) in the message.
poll_return(p) ==
    /\ pc[p] = "ret"
    /\ Returns(p, frame[p],
               Outcome(TRUE, IF frame[p].hit THEN "cache_loaded" ELSE "loaded",
                       Len(today_data), "", frame[p].newly,
                       IF frame[p].hit THEN "hit" ELSE "end", FALSE))
    /\ UNCHANGED <<today, excel, cache_file, unlinked, today_data, previous_data,
                   stop_event, check_thread, written, self_content_columns>>

\* load_today_data called by p (lines 23-67): the step it goes on with.
load_today_data(p) ==
    \/ poll_today(p)
    \/ poll_cache(p)
    \/ poll_read(p)
    \/ poll_exists(p)
    \/ poll_book(p)
    \/ poll_copy(p)
    \/ poll_prev(p)
    \/ poll_data(p)
    \/ poll_build(p)
    \/ poll_open(p)
    \/ poll_dump(p)
    \/ poll_test(p)
    \/ poll_ids(p)
    \/ poll_new(p)
    \/ poll_return(p)

\* An on-demand poll of the foreground caller (ExcelReminderGUI.load_data,
\* line 229; also lines 191 and 281).
load_data == load_today_data(0)

\* ------------------------------------------------------------------ the refresh thread
\* As MustCreateThread, were line 158 missing: every start creates a thread.
MustCreateThread_Always(ct, alive) == TRUE

\* Line 158: a thread is created unless check_thread is alive.
MustCreateThread(ct, alive) == ct = 0 \/ ~alive

\* start_refreshing (lines 157-161).
start_refreshing ==
    /\ caller = "idle"
    /\ IF MustCreateThread(check_thread, check_thread # 0 /\ is_alive(check_thread))
       THEN \E t \in Threads :
               /\ thread[t] = "unborn"
               /\ \A u \in Threads : u < t => thread[u] # "unborn"
               /\ thread' = [thread EXCEPT ![t] = "test"]
               /\ check_thread' = t
       ELSE UNCHANGED <<thread, check_thread>>
    /\ UNCHANGED <<self_content_columns, pc, frame>>
    /\ UNCHANGED <<today, excel, cache_file, unlinked, today_data, previous_data, stop_event,
                   caller, last, written>>

\* As LoopContinues, were the loop `while True`.
LoopContinues_IgnoresFlag(flag) == TRUE

\* Line 164: `while not self.stop_event.is_set()`.
LoopContinues(flag) == ~flag

\* _refresh_loop, line 164: the loop's test.
_refresh_loop_test(t) ==
    /\ thread[t] = "test"
    /\ thread' = [thread EXCEPT ![t] = IF LoopContinues(stop_event) THEN "load" ELSE "ended"]
    /\ UNCHANGED <<self_content_columns, pc, frame>>
    /\ UNCHANGED <<today, excel, cache_file, unlinked, today_data, previous_data, stop_event,
                   check_thread, caller, last, written>>

\* _refresh_loop, lines 165-166: the poll, the step it goes on with; an
\* exception leaving it ends the thread.
_refresh_loop_load(t) == load_today_data(t)

\* _refresh_loop, line 167: time.sleep(interval) is over.
_refresh_loop_sleep(t) ==
    /\ thread[t] = "sleep"
    /\ thread' = [thread EXCEPT ![t] = "test"]
    /\ UNCHANGED <<self_content_columns, pc, frame>>
    /\ UNCHANGED <<today, excel, cache_file, unlinked, today_data, previous_data, stop_event,
                   check_thread, caller, last, written>>

\* stop_refreshing, line 170: the flag is set.
stop_refreshing ==
    /\ caller = "idle"
    /\ stop_event' = TRUE
    /\ caller' = "stop"
    /\ UNCHANGED <<self_content_columns, pc, frame>>
    /\ UNCHANGED <<today, excel, cache_file, unlinked, today_data, previous_data,
                   check_thread, thread, last, written>>

\* stop_refreshing, line 171: join is entered if the thread is alive by now,
\* else stop_refreshing returns.
stop_refreshing_test ==
    /\ caller = "stop"
    /\ caller' = IF check_thread # 0 /\ is_alive(check_thread) THEN "join" ELSE "idle"
    /\ UNCHANGED <<self_content_columns, pc, frame>>
    /\ UNCHANGED <<today, excel, cache_file, unlinked, today_data, previous_data,
                   stop_event, check_thread, thread, last, written>>

\* Line 172, join(timeout=1): returns when the thread has ended, and after
\* one second whether it has or not.
JoinCanReturn(alive) == TRUE

\* stop_refreshing, line 172: join returns.
stop_refreshing_join ==
    /\ caller = "join"
    /\ JoinCanReturn(is_alive(check_thread))
    /\ caller' = "idle"
    /\ UNCHANGED <<self_content_columns, pc, frame>>
    /\ UNCHANGED <<today, excel, cache_file, unlinked, today_data, previous_data, stop_event,
                   check_thread, thread, last, written>>

\* ------------------------------------------------------------------ the environment
\* Midnight passes.
NextDay ==
    /\ today < MaxDay
    /\ today' = today + 1
    /\ UNCHANGED <<self_content_columns, pc, frame>>
    /\ UNCHANGED <<excel, cache_file, unlinked, today_data, previous_data, stop_event,
                   check_thread, thread, caller, last, written>>

\* A row of today is typed at the end of the sheet and the workbook saved.
AppendRow ==
    /\ excel.exists /\ excel.ext = ".xlsx" /\ excel.header = TimedHeader
    /\ Len(excel.rows) < MaxTyped
    /\ excel' = [excel EXCEPT !.rows = Append(@, <<PyDateTime(today, 0),
                                                   RowName(Len(excel.rows) + 1)>>)]
    /\ UNCHANGED <<self_content_columns, pc, frame>>
    /\ UNCHANGED <<today, cache_file, unlinked, today_data, previous_data, stop_event,
                   check_thread, thread, caller, last, written>>

\* The workbook is removed, or replaced by another file at the same path.
ReplaceWorkbook(workbooks) ==
    /\ \E w \in workbooks : w.ext = excel.ext /\ excel' = w
    /\ UNCHANGED <<self_content_columns, pc, frame>>
    /\ UNCHANGED <<today, cache_file, unlinked, today_data, previous_data, stop_event,
                   check_thread, thread, caller, last, written>>

\* The cache file is removed from outside the program.
RemoveCache ==
    /\ cache_file.st # "missing"
    /\ cache_file' = NoCacheFile
    /\ unlinked' = Unlinked
    /\ frame' = Moved
    /\ written' = NothingWritten
    /\ UNCHANGED <<self_content_columns, pc>>
    /\ UNCHANGED <<today, excel, today_data, previous_data, stop_event,
                   check_thread, thread, caller, last>>

\* Another file is put at the path of the cache file from outside the program
\* (renamed there).
ReplaceCache(files) ==
    /\ \E cf \in files : cache_file' = cf
    /\ unlinked' = Unlinked
    /\ frame' = Moved
    /\ written' = NothingWritten
    /\ UNCHANGED <<self_content_columns, pc>>
    /\ UNCHANGED <<today, excel, today_data, previous_data, stop_event,
                   check_thread, thread, caller, last>>

\* Another text is written into the cache file from outside the program: the
\* calls that hold the file open find that text in it.
ScribbleCache(files) ==
    /\ cache_file.st \notin {"missing", "no_permission"}
    /\ \E cf \in files : cf.st # "no_permission" /\ cache_file' = cf
    /\ written' = NothingWritten
    /\ UNCHANGED <<self_content_columns, pc, frame>>
    /\ UNCHANGED <<today, excel, unlinked, today_data, previous_data,
                   stop_event, check_thread, thread, caller, last>>

\* ------------------------------------------------------------------ the program with its refresh thread
\* The foreground caller and the refresh threads, their calls of
\* load_today_data overlapping, and a small environment: the program is
\* started on day 1 with one workbook of each kind load_today_data tells
\* apart and with any cache file of an earlier run; while it runs `[]` may
\* be written into the cache file, between the calls and in the middle of
\* them.
SchedWorkbooks ==
    {MissingWorkbook, CsvWorkbook, UntimedWorkbook, UnparseableWorkbook, DayWorkbook(1),
     XlsWorkbook(1), Unreadable(XlsWorkbook(1))}
SchedDamage == {JsonOther}

Init ==
    /\ today = 1
    /\ excel \in SchedWorkbooks
    /\ cache_file \in LeftoverCaches
    /\ NewLoader

Next ==
    \/ load_data
    \/ start_refreshing
    \/ \E t \in Threads : _refresh_loop_test(t)
    \/ \E t \in Threads : _refresh_loop_load(t)
    \/ \E t \in Threads : _refresh_loop_sleep(t)
    \/ stop_refreshing
    \/ stop_refreshing_test
    \/ stop_refreshing_join
    \/ ScribbleCache(SchedDamage)

Spec == Init /\ [][Next]_vars

\* The same program with every refresh thread scheduled fairly: a thread that
\* can take its next step (the test of line 164, the poll, the end of
\* time.sleep) takes it in the end.
SpecFair ==
    Spec /\ \A t \in Threads :
               WF_vars(_refresh_loop_test(t) \/ _refresh_loop_load(t) \/ _refresh_loop_sleep(t))

\* ------------------------------------------------------------------ the loader alone
\* The foreground caller polling on demand (ExcelReminderGUI.load_data, line
\* 229) while rows are typed into the workbook, the workbook is removed, the
\* day changes and the cache file is damaged (removed, replaced by a file
\* the program may not open, emptied, overwritten with bytes that are no text
\* or with `[]`), between its calls and in the middle of them.  The program
\* may find the cache file of an earlier run.

NextLoad ==
    \/ load_data
    \/ NextDay
    \/ AppendRow
    \/ ReplaceWorkbook({MissingWorkbook})
    \/ RemoveCache
    \/ ReplaceCache({NoPermission})
    \/ ScribbleCache({Undecodable, EmptyFile, JsonOther})

InitLoad ==
    /\ today = 1
    /\ excel = EmptyWorkbook
    /\ cache_file \in LeftoverCaches
    /\ NewLoader

SpecLoad == InitLoad /\ [][NextLoad]_vars

\* ------------------------------------------------------------------ the cache file written
\* The foreground caller polling while rows are typed and the day changes,
\* and while the cache file is removed, another file is put in its place (an
\* empty one, one holding `[]`) or another text is written into it (none,
\* bytes that are no text, a long text that is no JSON), between its calls
\* and in the middle of them, the open and the dump of _cache_data included.
NextWrite ==
    \/ load_data
    \/ NextDay
    \/ AppendRow
    \/ RemoveCache
    \/ ReplaceCache({EmptyFile, JsonOther})
    \/ ScribbleCache({EmptyFile, Undecodable, LongText})

SpecWrite == InitLoad /\ [][NextWrite]_vars

\* ------------------------------------------------------------------ one extraction
\* The first poll of a new loader, on any day, of any sheet of at most MaxRows
\* rows: the time cells are all the kinds of value a cell can hold, of the
\* first and the last day and time of day, the name of row i is RowName(i),
\* the time column is the first column or the second.
CellDays == {1, MaxDay}
CellTods == {0, MaxTod}
TimeCells ==
    {PyNone, PyStr(<<>>), PyInt(0), PyInt(5), Unparseable}
    \cup {PyDate(d) : d \in CellDays}
    \cup {PyStr(IsoDay(d)) : d \in CellDays}
    \cup {PyStr(UsDay(d)) : d \in CellDays}
    \cup {PyDateTime(d, t) : d \in CellDays, t \in CellTods}
    \cup {PyStr(IsoDay(d) \o Blank \o Hms(t)) : d \in CellDays, t \in CellTods}
    \cup {PyStr(UsDay(d) \o Blank \o Hms(t)) : d \in CellDays, t \in CellTods}
    \cup {PyStr(IsoDay(1) \o Blank \o Blank \o Hms(0))}
TimeColumns == [n \in 0..MaxRows |-> [1..n -> TimeCells]]
SheetOf(cells, timeFirst) ==
    Workbook(TRUE, ".xlsx",
             IF timeFirst THEN <<time_column, "name">> ELSE <<"name", time_column>>,
             [i \in 1..Len(cells) |->
                IF timeFirst THEN <<cells[i], RowName(i)>> ELSE <<RowName(i), cells[i]>>])
Sheets ==
    {SheetOf(cells, tf) : cells \in UNION {TimeColumns[n] : n \in 0..MaxRows}, tf \in BOOLEAN}

InitExtract ==
    /\ today \in Days
    /\ excel \in Sheets
    /\ cache_file = NoCacheFile
    /\ NewLoader

FirstLoad ==
    /\ last = NoPoll
    /\ load_data

NextExtract == FirstLoad

SpecExtract == InitExtract /\ [][NextExtract]_vars

\* ------------------------------------------------------------------ change detection alone
\* _print_new_records on any two small snapshots, of a loader of any of a few
\* configurations of content columns: the records have one of three times
\* (two of them with one str, a datetime and the text the cache keeps of it)
\* and any of the configured columns.
MaxDiff == 3        \* records of previous_data and today_data together
Configurations == {<<"name">>, <<"action">>, <<"action", "name">>}
DiffTimes == {PyDateTime(1, 0), PyStr(str(PyDateTime(1, 0))), PyDateTime(1, MaxTod)}
DiffRecords(ccols) ==
    {Rec(t, f) : t \in DiffTimes, f \in UNION {[cs -> {NameA}] : cs \in SUBSET Range(ccols)}}
SnapshotsOf(records, n) == UNION {[1..k -> records] : k \in 0..n}

InitDiff ==
    /\ today = 1
    /\ excel = MissingWorkbook
    /\ cache_file = NoCacheFile
    /\ self_content_columns \in Configurations
    /\ \E n \in 0..MaxDiff :
          /\ previous_data \in SnapshotsOf(DiffRecords(self_content_columns), n)
          /\ today_data \in SnapshotsOf(DiffRecords(self_content_columns), MaxDiff - n)
    /\ stop_event = FALSE
    /\ check_thread = 0
    /\ thread = [t \in Threads |-> "unborn"]
    /\ caller = "idle"
    /\ last = NoPoll
    /\ written = NothingWritten
    /\ pc = [p \in Callers |-> "idle"]
    /\ frame = [p \in Callers |-> NoFrame]
    /\ unlinked = NoneUnlinked

\* self._print_new_records() (line 35, line 63), on the loader's fields as they
\* are; an AttributeError of _print_record leaves it.
call_print_new_records ==
    /\ last = NoPoll
    /\ LET pr == _print_new_records(previous_data, today_data)
       IN  last' = [NoPoll EXCEPT !.by = 0, !.newly = pr.new_records, !.at = "print",
                                  !.raised = ~pr.ok, !.print = TRUE]
    /\ UNCHANGED <<today, excel, cache_file, unlinked, today_data, previous_data, stop_event,
                   check_thread, thread, caller, written, self_content_columns, pc, frame>>

NextDiff == call_print_new_records

SpecDiff == InitDiff /\ [][NextDiff]_vars

\* ------------------------------------------------------------------ overlapping polls
\* The foreground caller polls on demand while a refresh thread polls, on
\* one day; the workbook may be replaced by one with a row of today, between
\* the calls and in the middle of them.
NextRace ==
    \/ start_refreshing
    \/ \E t \in Threads : _refresh_loop_test(t)
    \/ \E t \in Threads : _refresh_loop_sleep(t)
    \/ \E p \in Callers : load_today_data(p)
    \/ ReplaceWorkbook({DayWorkbook(1)})

RaceWorkbooks == {EmptyWorkbook, DayWorkbook(1), UnparseableWorkbook, MissingWorkbook}

InitRace ==
    /\ today = 1
    /\ excel \in RaceWorkbooks
    /\ cache_file \in LeftoverCaches
    /\ NewLoader

SpecRace == InitRace /\ [][NextRace]_vars

\* ------------------------------------------------------------------ properties
Polls == last.by # -1                       \* a poll has been made
ColumnsOf(xl) == _get_columns(xl.header, time_column, content_columns)
TimeCell(xl, i) == xl.rows[i][ColumnsOf(xl).time_col_idx]
Parseable(v) == Truthy(v) /\ _parse_time(v).ok
AllParseable(xl) == \A i \in DOMAIN xl.rows : Parseable(TimeCell(xl, i))

\* The snapshot of a sheet on a day: its rows, in the sheet's order, whose time
\* cell is a time of that day, each as a record of that time and the row's
\* content columns.
RowsOfDay(xl, day) ==
    LET idx == SelectSeq([i \in 1..Len(xl.rows) |-> i],
                         LAMBDA i : /\ Parseable(TimeCell(xl, i))
                                    /\ _parse_time(TimeCell(xl, i)).val.d = day)
    IN  [k \in 1..Len(idx) |->
            Rec(_parse_time(TimeCell(xl, idx[k])).val,
                [c \in DOMAIN ColumnsOf(xl).content_col_indices |->
                    xl.rows[idx[k]][ColumnsOf(xl).content_col_indices[c]]])]

\* C1: of two consecutive polls on one day, the second made on the first's
\* sheet with one more row, of today, the second reports exactly that row's
\* record as new.
C1_SecondPollReportsNewRow ==
    [][(/\ Polls
        /\ pc[0] # "idle" /\ pc'[0] = "idle"
        /\ last.today = last'.today
        /\ Len(last'.excel.rows) = Len(last.excel.rows) + 1
        /\ SubSeq(last'.excel.rows, 1, Len(last.excel.rows)) = last.excel.rows
        /\ Parseable(TimeCell(last'.excel, Len(last'.excel.rows)))
        /\ _parse_time(TimeCell(last'.excel, Len(last'.excel.rows))).val.d = last'.today)
       => last'.newly = <<RowsOfDay(last'.excel, last'.today)[Len(RowsOfDay(last'.excel, last'.today))]>>]_vars

\* C2: a stop_refreshing that finds the thread asleep can return at once (join
\* does not wait for the sleep), and once the flag is set no thread begins
\* another poll.
C2_StopDuringSleep ==
    /\ []((caller = "join" /\ thread[check_thread] = "sleep") => ENABLED stop_refreshing_join)
    /\ [][\A t \in Threads : (stop_event /\ thread[t] # "load") => thread'[t] # "load"]_vars

\* stop_refreshing has returned while the thread it stopped is still asleep.
C2_Witness ==
    /\ stop_event /\ caller = "idle"
    /\ check_thread # 0 /\ thread[check_thread] = "sleep"

\* C3: a start_refreshing after a thread has been stopped and has ended starts
\* a loop that runs (the stop flag is clear) from an empty previous snapshot.
C3_RestartRuns ==
    [][\A t \in Threads :
          (/\ thread[t] = "unborn" /\ thread'[t] = "test"
           /\ \E u \in Threads : thread[u] = "ended")
          => (~stop_event' /\ today_data' = <<>> /\ previous_data' = <<>>)]_vars

\* C4: at most one refresh thread is alive.
C4_OneLoop == Cardinality({t \in Threads : is_alive(t)}) <= 1

\* A thread is alive after an earlier one was stopped and has ended.
C4_Witness ==
    \E t, u \in Threads : is_alive(t) /\ thread[u] = "ended"

\* C5: a poll of the loop ends in the sleep, with (False, message) if it
\* failed, never in the thread's end; the sleep ends in the loop's test, and
\* the test, unless stop was requested, in another poll.
C5_FailedPollKeepsLoop ==
    [][\A t \in Threads :
          /\ (thread[t] = "load" /\ thread'[t] # "load")
             => /\ thread'[t] = "sleep"
                /\ ~last'.raised
                /\ last'.kind \in {"not_exist", "unsupported", "failed"} => ~last'.success
          /\ (thread[t] = "sleep" /\ thread'[t] # "sleep") => thread'[t] = "test"
          /\ (thread[t] = "test" /\ ~stop_event /\ thread'[t] # "test")
             => thread'[t] = "load"]_vars

\* A thread is about to poll again after its own poll failed with an exception.
C5_Witness ==
    \E t \in Threads :
        thread[t] = "load" /\ last.by = t /\ ~last.success /\ last.kind = "failed"

\* C6: a poll that takes the snapshot from the cache this loader wrote has
\* the snapshot that was written, timestamps as they were.
C6_CacheRoundTrip ==
    (pc[0] = "idle" /\ last.at = "hit" /\ written # NothingWritten)
    => today_data = written.data

\* C7: a poll that finds an entry of another day does not use it: it goes to
\* the workbook, and its snapshot is the workbook's rows of today.
C7_OtherDayIsMiss ==
    (pc[0] = "idle" /\ Polls /\ last.cst = "json_dict" /\ last.cdate # str(PyDate(last.today)))
    => /\ last.at \notin {"read", "hit"}
       /\ last.kind # "cache_loaded"
       /\ last.success => today_data = RowsOfDay(last.excel, last.today)

\* A poll on day 2 found the entry of day 1 and loaded day 2's rows.
C7_Witness ==
    /\ last.cst = "json_dict" /\ last.cdate = str(PyDate(1)) /\ last.today = 2
    /\ last.kind = "loaded" /\ today_data # <<>>

\* C8: a poll that finds no well-formed cache entry goes on to the workbook,
\* as on a miss.
C8_BrokenCacheIsMiss ==
    (Polls /\ last.cst \in BrokenCacheStates) => last.at # "read"

\* C9: a poll of a sheet succeeds whatever its time cells hold, with the
\* snapshot of the rows of today; rows with an empty or unparseable time are
\* left out.
C9_BadRowsSkipped ==
    Polls => (last.success /\ today_data = RowsOfDay(last.excel, last.today))

\* C10: the snapshot extracted from a sheet whose time cells are all parseable
\* is the sheet's rows of today, each once, in the sheet's order.
C10_ExactlyTodaysRows ==
    (Polls /\ AllParseable(last.excel))
    => (last.kind = "loaded" /\ today_data = RowsOfDay(last.excel, last.today))

\* A sheet of two parseable rows, one of today and one of another day, was
\* extracted.
C10_Witness ==
    /\ Polls /\ AllParseable(last.excel)
    /\ Len(last.excel.rows) = 2 /\ Len(today_data) = 1

\* C11: a poll that reports failure leaves today_data as it was when the poll
\* began, and has not opened the cache file for writing.
C11_FailedPollChangesNothing ==
    [][(pc[0] # "idle" /\ pc'[0] = "idle" /\ ~last'.success)
       => (today_data' = frame[0].held /\ ~frame[0].wrote)]_vars

\* The records of current, in current's order, whose identity key is the key
\* of no record of previous.
RECURSIVE NewlyAppeared(_, _)
NewlyAppeared(previous, current) ==
    IF current = <<>> THEN <<>>
    ELSE LET rest == NewlyAppeared(previous, Tail(current))
         IN  IF \E i \in DOMAIN previous : IdentityKey(previous[i]) = IdentityKey(Head(current))
             THEN rest
             ELSE <<Head(current)>> \o rest

\* C12: change detection finds new exactly the records of the current
\* snapshot, in its order, whose identity key is no key of the previous
\* snapshot; against an empty previous snapshot that is the whole current
\* snapshot, against the current snapshot itself it is nothing.
C12_DiffIsKeyFilter ==
    last.at = "print"
    => /\ last.newly = NewlyAppeared(previous_data, today_data)
       /\ previous_data = <<>> => last.newly = today_data
       /\ previous_data = today_data => last.newly = <<>>

\* Of a current snapshot of two records, one was found new and one was not.
C12_Witness ==
    /\ last.at = "print" /\ previous_data # <<>>
    /\ Len(today_data) = 2 /\ Len(last.newly) = 1

\* Two records are the same entry: their timestamps have one str, and their
\* values of the first configured content column, "" where it is absent, are
\* equal.
SameEntry(r1, r2) ==
    /\ str(r1.time) = str(r2.time)
    /\ Get(r1, self_content_columns[1], PyStr(<<>>))
       = Get(r2, self_content_columns[1], PyStr(<<>>))

\* C16: whatever the content columns configured, change detection finds new
\* exactly the records that are the same entry as no record of the previous
\* snapshot.
C16_KeyIsFirstColumn ==
    (last.at = "print" /\ previous_data # <<>>)
    => last.newly = SelectSeq(today_data,
                              LAMBDA r : \A i \in DOMAIN previous_data :
                                             ~SameEntry(previous_data[i], r))

\* C13: the stop flag is observed at the start of the sleep: a thread whose
\* poll returns after stop was requested ends, and does not sleep first.
C13_StopSeenBeforeSleep ==
    [][\A t \in Threads :
          (stop_event /\ thread[t] = "load" /\ thread'[t] # "load")
          => thread'[t] = "ended"]_vars

\* Scheduled fairly, a thread that is alive when stop was requested ends.
C13_Terminates ==
    \A t \in Threads : (stop_event /\ is_alive(t)) ~> (thread[t] = "ended")

\* The cache file holds a well-formed entry of that day.
TodaysEntry(cf, day) == cf.st = "json_dict" /\ cf.date = str(PyDate(day))

\* C14: a call that finds the entry of today goes on at line 32 with the
\* snapshot of the entry it read; from there each of its steps leaves the
\* cache file as it is, line 33 makes that snapshot today_data, and the call
\* reaches no line that looks for, reads or parses the workbook or writes the
\* cache: it ends at the hit, whatever the workbook is or becomes.
C14_HitShortCircuits ==
    [][\A p \in Callers :
          /\ (/\ pc[p] = "load" /\ pc'[p] # "load"
              /\ TodaysEntry(FileOf(frame[p].fd), frame[p].today))
             => /\ pc'[p] = "copy" /\ frame'[p].hit
                /\ frame'[p].data = FileOf(frame[p].fd).data
          /\ (pc[p] # "idle" /\ frame[p].hit /\ pc'[p] # pc[p])
             => /\ cache_file' = cache_file
                /\ pc[p] = "data" => today_data' = frame[p].data
                /\ pc'[p] \notin {"exists", "book", "build", "open", "dump"}
                /\ pc'[p] = "idle" => last'.at = "hit"]_vars

\* A poll was served from the cache, with a record, while the workbook was
\* missing.
C14_Witness ==
    /\ last.at = "hit" /\ last.success /\ ~last.excel.exists
    /\ today_data # <<>> /\ TodaysEntry(cache_file, last.today)

\* C15: the write of a poll that extracted the workbook leaves at the path
\* the entry of that poll's day and of the snapshot it extracted (as JSON
\* keeps it), whatever the file was before the poll opened it, when the file
\* the poll opened is still the file at the path and still as the open left
\* it (the program is the file's only writer: no other file was put there
\* and nothing written into it between lines 154 and 155); no later step of
\* the poll changes the cache file, and every poll that ends after its
\* extraction has written.
C15_WriteOverwrites ==
    [][/\ (/\ pc[0] = "dump" /\ pc'[0] # "dump"
           /\ frame[0].fd = AtPath /\ cache_file = frame[0].opened)
          => cache_file' = Entry(str(PyDate(frame[0].today)),
                                 JsonList(RowsOfDay(frame[0].xl, frame[0].today)))
       /\ (pc[0] \in {"test", "ids", "new", "ret"} /\ pc'[0] # pc[0])
          => cache_file' = cache_file
       /\ (pc[0] # "idle" /\ pc'[0] = "idle" /\ last'.at = "end") => frame[0].wrote]_vars

\* After midnight a poll found the entry of day 1, with a record, and left the
\* entry of the new day in its place.
C15_Witness ==
    /\ last.at = "end" /\ last.today = MaxDay
    /\ last.cst = "json_dict" /\ last.cdate = str(PyDate(1))
    /\ cache_file = Entry(str(PyDate(MaxDay)), JsonList(today_data))
    /\ written.data # <<>>

\* C19: a poll that finds a well-formed entry of today, made with
\* print_new_records=True, reports success.
C19_HitSucceeds ==
    (Polls /\ last.print /\ last.cst = "json_dict" /\ last.cdate = str(PyDate(last.today)))
    => last.success

\* The calendar day of a record's timestamp: of a datetime its date, of the
\* text the cache keeps of one the date _parse_time reads in it.
DayOfTimestamp(v) == IF Parseable(v) THEN DateOf(_parse_time(v).val) ELSE 0

\* C20: after a poll that reported success, from the workbook or from the
\* cache, every record of today_data has a timestamp of the day that poll
\* took as today.
C20_SnapshotIsOfToday ==
    (pc[0] = "idle" /\ Polls /\ last.success)
    => \A i \in DOMAIN today_data : DayOfTimestamp(today_data[i].time) = last.today

\* After midnight a poll was served, with a record, from the entry this loader
\* wrote on the new day.
C20_Witness ==
    /\ last.at = "hit" /\ last.success /\ last.today = MaxDay
    /\ written.day = MaxDay /\ today_data # <<>>

\* C17: whatever the interleaving of the foreground caller's poll and a
\* thread's, the records a poll reports as new are the newly appeared ones
\* between the snapshot the loader held when that poll began and the snapshot
\* that poll produced.
C17_DiffIsOfOwnPoll ==
    [][\A p \in Callers :
          (pc[p] \in {"new", "ret"} /\ pc'[p] = "idle")
          => last'.newly = NewlyAppeared(frame[p].held, frame[p].data)]_vars

\* Another call has opened the cache file for writing and not yet written
\* it: the file is empty, or holds the beginning of an entry.
PartlyWritten(p) ==
    /\ FileOf(frame[p].fd).st = "invalid_json"
    /\ \E q \in Callers : q # p /\ pc[q] = "dump" /\ frame[q].fd = frame[p].fd
\* The call of p read the cache file while it was partly written.
ReadPartlyWritten(p) == frame[p].torn /\ frame[p].cst = "invalid_json"

\* C18: a poll that reads the cache file while another poll is part-way
\* through writing it does not fail in reading it and does not use it: it goes
\* to the workbook, and the snapshot it makes is the workbook's rows of today,
\* all of them.
C18_PartlyWrittenIsMiss ==
    [][\A p \in Callers :
          /\ (pc[p] = "load" /\ pc'[p] # "load" /\ PartlyWritten(p))
             => /\ pc'[p] = "exists" /\ ~frame'[p].hit
          /\ (pc[p] = "data" /\ pc'[p] # "data" /\ ReadPartlyWritten(p))
             => /\ ~frame[p].hit
                /\ pc'[p] = "idle" => last'.at = "rows"
                /\ pc'[p] # "idle" => today_data' = RowsOfDay(frame[p].xl, frame[p].today)]_vars

\* A call that read the cache file while the other call was writing it has
\* extracted the workbook's record and written the cache itself.
C18_Witness ==
    \E p \in Callers :
        /\ ReadPartlyWritten(p) /\ pc[p] = "ret" /\ ~frame[p].hit
        /\ today_data = frame[p].data /\ today_data # <<>>

====
